---------------------------- MODULE Spec2Model ----------------------------
(***************************************************************************)
(* A model of the valuation engine of the intrinsic-value calculator:      *)
(* dcf and calc_cagr of src/src/provider.py.                               *)
(*                                                                         *)
(* Numbers.  The program computes in IEEE doubles (numpy float64).  TLC    *)
(* has only integers, so a number is an exact rational <<n, d>> in lowest  *)
(* terms with d > 0, extended with the three non-finite doubles            *)
(* inf = <<1,0>>, -inf = <<-1,0>> and nan = <<0,0>>, which numpy produces  *)
(* on a division by zero instead of raising.  Rounding error of the        *)
(* doubles is not modelled; round(x, 2) rounds the exact value to the      *)
(* nearest hundredth, ties to even.                                        *)
(***************************************************************************)
EXTENDS Integers, Sequences, FiniteSets, TLC

(***************************************************************************)
(* Integer helpers.                                                        *)
(***************************************************************************)
IAbs(a) == IF a < 0 THEN -a ELSE a

ISign(a) == IF a < 0 THEN -1 ELSE IF a > 0 THEN 1 ELSE 0

RECURSIVE GCD(_, _)
GCD(a, b) == IF b = 0 THEN a ELSE GCD(b, a % b)

\* min(a^k, cap + 1): the power, cut off as soon as it exceeds cap.
RECURSIVE IPowCapped(_, _, _)
IPowCapped(a, k, cap) ==
  IF k = 0 THEN 1
  ELSE LET p == IPowCapped(a, k - 1, cap)
       IN  IF p > cap THEN cap + 1
           ELSE IF p * a > cap THEN cap + 1 ELSE p * a

\* The least p >= from with p^k >= n (n >= 0, k >= 1).
RECURSIVE IRootFrom(_, _, _)
IRootFrom(n, k, from) ==
  IF IPowCapped(from, k, n) >= n THEN from ELSE IRootFrom(n, k, from + 1)

\* n is a perfect k-th power.
IsPower(n, k) == IPowCapped(IRootFrom(n, k, 0), k, n) = n

(***************************************************************************)
(* float64 values as extended rationals.                                   *)
(***************************************************************************)
Inf    == <<1, 0>>
NegInf == <<-1, 0>>
NaN    == <<0, 0>>

\* The value n/d in lowest terms (d # 0).
Q(n, d) ==
  LET g == GCD(IAbs(n), IAbs(d))
  IN  IF d < 0 THEN <<(-n) \div g, (-d) \div g>> ELSE <<n \div g, d \div g>>

Z(n) == <<n, 1>>

IsFinite(x) == x[2] # 0
IsNaN(x)    == x = NaN

\* np.sign
RSign(x) == IF IsNaN(x) THEN NaN ELSE Z(ISign(x[1]))

RNeg(x) == <<-x[1], x[2]>>

\* abs / np.abs
RAbs(x) == <<IAbs(x[1]), x[2]>>

\* x + y
RAdd(x, y) ==
  IF IsNaN(x) \/ IsNaN(y) THEN NaN
  ELSE IF ~IsFinite(x) THEN (IF IsFinite(y) \/ x = y THEN x ELSE NaN)
  ELSE IF ~IsFinite(y) THEN y
  ELSE LET g == GCD(x[2], y[2])
           l == (x[2] \div g) * y[2]
       IN  Q(x[1] * (l \div x[2]) + y[1] * (l \div y[2]), l)

\* x - y
RSub(x, y) == RAdd(x, RNeg(y))

\* x * y
RMul(x, y) ==
  IF IsNaN(x) \/ IsNaN(y) THEN NaN
  ELSE IF ~IsFinite(x) \/ ~IsFinite(y)
       THEN (IF x[1] = 0 \/ y[1] = 0 THEN NaN
             ELSE <<ISign(x[1]) * ISign(y[1]), 0>>)
  ELSE LET g1 == GCD(IAbs(x[1]), y[2])
           g2 == GCD(IAbs(y[1]), x[2])
       IN  Q((x[1] \div g1) * (y[1] \div g2), (x[2] \div g2) * (y[2] \div g1))

\* x / y as numpy divides: a finite x over zero is +-inf, 0/0 is nan, and
\* nothing is raised.
RDiv(x, y) ==
  IF IsNaN(x) \/ IsNaN(y) THEN NaN
  ELSE IF ~IsFinite(y) THEN (IF IsFinite(x) THEN Z(0) ELSE NaN)
  ELSE IF ~IsFinite(x)
       THEN (IF y[1] < 0 THEN RNeg(x) ELSE x)
  ELSE IF y[1] = 0 THEN <<ISign(x[1]), 0>>
  ELSE RMul(x, Q(y[2], y[1]))

\* a/b < c/d for b, d > 0, by comparing the continued fractions (no
\* products are formed).
RECURSIVE FracLess(_, _, _, _)
FracLess(a, b, c, d) ==
  LET q1 == a \div b
      q2 == c \div d
      r1 == a % b
      r2 == c % d
  IN  IF q1 # q2 THEN q1 < q2
      ELSE IF r2 = 0 THEN FALSE
      ELSE IF r1 = 0 THEN TRUE
      ELSE FracLess(d, r2, b, r1)

\* x < y (false when either is nan)
RLess(x, y) ==
  IF IsNaN(x) \/ IsNaN(y) THEN FALSE
  ELSE IF x = y THEN FALSE
  ELSE IF ~IsFinite(x) THEN x = NegInf
  ELSE IF ~IsFinite(y) THEN y = Inf
  ELSE FracLess(x[1], x[2], y[1], y[2])

RLeq(x, y) == x = y \/ RLess(x, y)

\* x ** k for an integer k >= 0
RECURSIVE RPow(_, _)
RPow(x, k) == IF k = 0 THEN Z(1) ELSE RMul(RPow(x, k - 1), x)

\* x ** (1/N) for x >= 0 is computed exactly where the root is rational.
HasExactRoot(x, N) ==
  \/ ~IsFinite(x)
  \/ N >= 1 /\ x[1] >= 0 /\ IsPower(x[1], N) /\ IsPower(x[2], N)

RRoot(x, N) ==
  IF ~IsFinite(x) THEN x
  ELSE Q(IRootFrom(x[1], N, 0), IRootFrom(x[2], N, 0))

\* round(x, 2): the nearest hundredth, ties to even; inf and nan stay.
Round2(x) ==
  IF ~IsFinite(x) THEN x
  ELSE LET n == 100 * x[1]
           q == n \div x[2]
           r == n % x[2]
           k == IF 2 * r < x[2] THEN q
                ELSE IF 2 * r > x[2] THEN q + 1
                ELSE IF q % 2 = 0 THEN q ELSE q + 1
       IN  Q(k, 100)

(***************************************************************************)
(* Arguments.  rev_growth_array and fcf_margins_array are each either a    *)
(* scalar or a per-year numpy array; np.array([a]).shape == (1,) holds     *)
(* exactly for the scalar.  Both are kept as a sequence of numbers with a  *)
(* tag, the scalar as its one value.                                       *)
(***************************************************************************)
Scalar(x) == [kind |-> "scalar", v |-> <<x>>]

Arr(s) == [kind |-> "array", v |-> s]

IsScalarArg(a) == a.kind = "scalar"

\* np.full(n, x)
Full(n, x) == [i \in 1..n |-> x]

\* Lines 270-274: a scalar is expanded to np.full(n_future_years, scalar);
\* an array is taken as it is, whatever its length.
Broadcast(a, n) == IF IsScalarArg(a) THEN Full(n, a.v[1]) ELSE a.v

(***************************************************************************)
(* calc_cagr (lines 407-413).                                              *)
(***************************************************************************)
\* final_val after the loop over every element of the array.
RECURSIVE FinalVal(_, _)
FinalVal(s, k) ==
  IF k = 0 THEN Z(1) ELSE RMul(FinalVal(s, k - 1), RAdd(Z(1), s[k]))

\* Variant: the scalar branch returns 100*g as it is, not rounded.
calc_cagr_unrounded(a, N) ==
  IF IsScalarArg(a) THEN RMul(Z(100), a.v[1])
  ELSE LET final_val == FinalVal(a.v, Len(a.v))
       IN  Round2(RMul(RMul(RSign(final_val), Z(100)),
                       RSub(RRoot(RAbs(final_val), N), Z(1))))

calc_cagr(a, N) ==
  IF IsScalarArg(a) THEN Round2(RMul(Z(100), a.v[1]))
  ELSE LET final_val == FinalVal(a.v, Len(a.v))
       IN  Round2(RMul(RMul(RSign(final_val), Z(100)),
                       RSub(RRoot(RAbs(final_val), N), Z(1))))

(***************************************************************************)
(* The forward pass of dcf (lines 276-303), on the broadcast arrays g, m.  *)
(***************************************************************************)
\* rev_inc after i iterations of the projection loop.
RECURSIVE RevInc(_, _, _)
RevInc(g, latest_revenue, i) ==
  IF i = 0 THEN latest_revenue
  ELSE RMul(RevInc(g, latest_revenue, i - 1), RAdd(Z(1), g[i]))

ProjFcf(g, m, n, latest_revenue) ==
  [i \in 1..n |-> RMul(RevInc(g, latest_revenue, i), m[i])]

\* Variant: the first year is not discounted (exponent i - 1).
DiscountFactorsFromZero(n, wacc) ==
  [i \in 1..n |-> RPow(RAdd(Z(1), wacc), i - 1)]

DiscountFactors(n, wacc) == [i \in 1..n |-> RPow(RAdd(Z(1), wacc), i)]

\* discounted_fcf after the first k projected years.
RECURSIVE DiscountedFcf(_, _, _)
DiscountedFcf(p, df, k) ==
  IF k = 0 THEN Z(0)
  ELSE RAdd(DiscountedFcf(p, df, k - 1), RDiv(p[k], df[k]))

\* Variant: the last projected FCF is not grown by tgr.
TerminalValueNoGrowth(p, df, wacc, tgr) ==
  RDiv(RDiv(p[Len(p)], RSub(wacc, tgr)), df[Len(df)])

TerminalValue(p, df, wacc, tgr) ==
  RDiv(RDiv(RMul(p[Len(p)], RAdd(Z(1), tgr)), RSub(wacc, tgr)), df[Len(df)])

\* Every local of the forward pass; n >= 1 and both arrays hold at least n
\* values.
ForwardPass(g, m, n, latest_revenue, wacc, tgr, total_shares) ==
  LET p   == ProjFcf(g, m, n, latest_revenue)
      df  == DiscountFactors(n, wacc)
      d   == DiscountedFcf(p, df, n)
      tv  == TerminalValue(p, df, wacc, tgr)
      tdv == RAdd(d, tv)
  IN  [proj_fcf |-> p, discount_factors |-> df, discounted_fcf |-> d,
       terminal_value |-> tv, todays_value |-> tdv,
       fair_value |-> RDiv(tdv, total_shares)]

\* The fair value as line 345 rounds it.
dcf_reverse_mode_rounded(g, m, n, latest_revenue, wacc, tgr, total_shares) ==
  Round2(ForwardPass(g, m, n, latest_revenue, wacc, tgr, total_shares).fair_value)

\* dcf(..., reverse_dcf_mode=True): the unrounded fair value (line 306).
dcf_reverse_mode(g, m, n, latest_revenue, wacc, tgr, total_shares) ==
  ForwardPass(g, m, n, latest_revenue, wacc, tgr, total_shares).fair_value

(***************************************************************************)
(* The three objectives of the reverse solves (lines 309-326).             *)
(***************************************************************************)
reverse_dcf_revenue(rev_growth_rate, fcf_margins_array, n, latest_revenue, wacc, tgr, total_shares, current_price) ==
  RAbs(RSub(dcf_reverse_mode(Full(n, rev_growth_rate), fcf_margins_array, n,
                             latest_revenue, wacc, tgr, total_shares),
            current_price))

reverse_dcf_fcf_margin(fcf_margin, rev_growth_array, n, latest_revenue, wacc, tgr, total_shares, current_price) ==
  RAbs(RSub(dcf_reverse_mode(rev_growth_array, Full(n, fcf_margin), n,
                             latest_revenue, wacc, tgr, total_shares),
            current_price))

\* Variant: the signed difference, without abs.
reverse_dcf_discount_rate_signed(wacc, rev_growth_array, fcf_margins_array, n, latest_revenue, tgr, total_shares, current_price) ==
  RSub(dcf_reverse_mode(rev_growth_array, fcf_margins_array, n,
                        latest_revenue, wacc, tgr, total_shares),
       current_price)

reverse_dcf_discount_rate(wacc, rev_growth_array, fcf_margins_array, n, latest_revenue, tgr, total_shares, current_price) ==
  RAbs(RSub(dcf_reverse_mode(rev_growth_array, fcf_margins_array, n,
                             latest_revenue, wacc, tgr, total_shares),
            current_price))

(***************************************************************************)
(* scipy.optimize.minimize_scalar (imported at line 12, called at lines    *)
(* 328-341 with no bounds and no bracket) is a library outside the         *)
(* repository.  It is modelled by what the code relies on: the .x of its   *)
(* result is a point of the searched rates at which the objective is least.*)
(* The search is over a finite grid of candidate rates; where the least    *)
(* value is attained at several candidates (a flat objective), or at none  *)
(* because the objective is nowhere finite, the library's answer depends   *)
(* on its bracketing path and any of them may be returned.  With nothing   *)
(* to bracket the library may instead raise (newer releases raise a        *)
(* RuntimeError from their bracket search) or give up with .x nan.  The    *)
(* code never reads .success.                                              *)
(***************************************************************************)
MinimizeScalar(evals) ==
  LET finite == {p \in evals : IsFinite(p[2])}
  IN  IF finite = {} THEN {p[1] : p \in evals}
      ELSE {p[1] : p \in {q \in finite : \A e \in finite : RLeq(q[2], e[2])}}

\* The objective offers the library nothing to bracket: it is nowhere
\* finite, or it has one value at every rate searched.
NoBracket(evals) ==
  \/ \A p \in evals : ~IsFinite(p[2])
  \/ \A p, q \in evals : p[2] = q[2]

\* The OptimizeResult objects a call may produce: .x as above with .success
\* True; for an objective that is nowhere finite also the result of a search
\* that gave up, .x nan with .success False.
MinimizeResults(evals) ==
  {[x |-> c, success |-> TRUE] : c \in MinimizeScalar(evals)}
  \cup (IF \A p \in evals : ~IsFinite(p[2])
        THEN {[x |-> NaN, success |-> FALSE]}
        ELSE {})

\* The .x of those results.
MinimizeXs(evals) == {r.x : r \in MinimizeResults(evals)}

(***************************************************************************)
(* The inputs the model draws.  Rates are chosen so that every value of    *)
(* the computation fits TLC's 32-bit integers, and growth arrays so that   *)
(* the root taken by calc_cagr is rational.                                *)
(***************************************************************************)
MaxYears == 2

GrowthVals == {Q(-31, 20), Z(-1), Q(1, 10), Q(6, 5)}

ArrayGrowthVals == {Q(-19, 30), Q(1, 10), Q(23, 10)}

MarginVals == {Z(0), Q(1, 5)}

ArrayMarginVals == {Z(0), Q(1, 5)}

WaccVals == {Q(1, 10), Q(6, 5)}

TgrVals == {Q(1, 40), Q(1, 10)}

\* The rates the minimiser may answer with, per axis.
GrowthCands == {Q(-19, 30), Q(1, 10)}

DiscountCands == {Q(1, 10), Q(6, 5), Q(8, 3)}

MarginCands == {Q(1, 5), Q(1, 3)}

\* The objective of each solve at every rate searched (lines 328-341).
GrowthEvals(m, n, latest_revenue, wacc, tgr, total_shares, current_price) ==
  {<<c, reverse_dcf_revenue(c, m, n, latest_revenue, wacc, tgr,
                            total_shares, current_price)>>
   : c \in GrowthCands}

DiscountEvals(g, m, n, latest_revenue, tgr, total_shares, current_price) ==
  {<<c, reverse_dcf_discount_rate(c, g, m, n, latest_revenue, tgr,
                                  total_shares, current_price)>>
   : c \in DiscountCands}

MarginEvals(g, n, latest_revenue, wacc, tgr, total_shares, current_price) ==
  {<<c, reverse_dcf_fcf_margin(c, g, n, latest_revenue, wacc, tgr,
                               total_shares, current_price)>>
   : c \in MarginCands}

GrowthArgs(n) ==
  {Scalar(x) : x \in GrowthVals}
    \cup {Arr(s) : s \in {t \in [1..n -> ArrayGrowthVals] :
                            HasExactRoot(RAbs(FinalVal(t, n)), n)}}

MarginArgs(n) ==
  {Scalar(x) : x \in MarginVals} \cup {Arr(s) : s \in [1..n -> ArrayMarginVals]}

\* The concrete scenario of the specification's section 8.
Scenario ==
  [rev_growth_array |-> Scalar(Q(1, 10)), fcf_margins_array |-> Scalar(Q(1, 5)),
   n_future_years |-> 5, latest_revenue |-> Z(1000000), wacc |-> Q(1, 10),
   tgr |-> Q(1, 40), total_shares |-> Z(100000), current_price |-> Z(50),
   reverse_dcf_mode |-> FALSE]

GridInputs ==
  UNION {[rev_growth_array : GrowthArgs(n), fcf_margins_array : MarginArgs(n),
          n_future_years : {n}, latest_revenue : {Z(1000000)},
          wacc : WaccVals, tgr : TgrVals, total_shares : {Z(100000)},
          current_price : {Z(50)}, reverse_dcf_mode : BOOLEAN] :
         n \in 1..MaxYears}

Inputs == GridInputs \cup {Scenario}

None == <<>>

\* Calls whose arrays do not match n_future_years, whose horizon is not
\* positive, or whose price or share count is not positive.
EdgeInputs ==
  {[Scenario EXCEPT !.n_future_years = 0],
   [Scenario EXCEPT !.n_future_years = -1],
   [Scenario EXCEPT !.n_future_years = -1,
                    !.rev_growth_array = Arr(<<Q(1, 10)>>),
                    !.fcf_margins_array = Arr(<<Q(1, 5)>>)],
   [Scenario EXCEPT !.n_future_years = 2,
                    !.rev_growth_array = Arr(<<Q(1, 10)>>)],
   [Scenario EXCEPT !.n_future_years = 2,
                    !.fcf_margins_array = Arr(<<Q(1, 5)>>)],
   [Scenario EXCEPT !.n_future_years = 1,
                    !.rev_growth_array = Arr(<<Q(1, 10), Q(6, 5)>>)],
   [Scenario EXCEPT !.n_future_years = 1,
                    !.fcf_margins_array = Arr(<<Q(1, 5), Z(0)>>)],
   [Scenario EXCEPT !.current_price = Z(0)],
   [Scenario EXCEPT !.current_price = Z(-50)],
   [Scenario EXCEPT !.total_shares = Z(0)],
   [Scenario EXCEPT !.total_shares = Z(-100000)]}

(***************************************************************************)
(* One call of dcf, step by step.                                          *)
(***************************************************************************)
VARIABLES
  pc,                     \* where the call stands
  inp,                    \* the arguments of the call
  rev_growth_array,       \* the locals of dcf, None until assigned
  fcf_margins_array,
  proj_fcf,
  discounted_fcf,
  terminal_value,
  fair_value,
  assumed_cagr,
  solved,                 \* the .x of each minimize_scalar result so far
  required_rev_growth,
  required_discount_rate,
  required_fcf_margin,
  success,                \* the .success of each minimize_scalar result so far
  result,                 \* the returned value, each component under the
                          \* name of the local it is taken from
  exc,                    \* the exception raised, None if none
  trip,                   \* the call is the second of a round trip
  cache,                  \* the results functools.cache holds for get_info
  attempt,                \* the locals of get_info
  stock_info,
  income,
  cashflow,
  trace,                  \* the fetches of the get_info call in progress
  returned,               \* what get_info last returned, by ticker
  response                \* what get_company_info answered, None before

\* Variant: calc_cagr is handed the caller's argument as it was passed.
CagrArgAsPassed(a, g) == a

\* Line 303: calc_cagr is handed the local rev_growth_array, which by then
\* is the broadcast array g, not the caller's argument a.
CagrArg(a, g) == Arr(g)

\* Variant: the discount-rate solve runs on the growth solved just before.
DiscountSolveGrowthChained == Full(inp.n_future_years, solved[1])

\* Line 334: the discount-rate solve is handed the local rev_growth_array.
DiscountSolveGrowth == rev_growth_array

\* Variant: the tuple also carries the projected FCF path.
ReturnValueWithPath ==
  [fair_value |-> Round2(fair_value),
   proj_fcf |-> proj_fcf,
   required_rev_growth |-> required_rev_growth,
   required_discount_rate |-> required_discount_rate,
   required_fcf_margin |-> required_fcf_margin,
   assumed_cagr |-> assumed_cagr]

\* Variant: the fair value is returned as computed, not rounded.
ReturnValueUnrounded ==
  [fair_value |-> fair_value,
   required_rev_growth |-> required_rev_growth,
   required_discount_rate |-> required_discount_rate,
   required_fcf_margin |-> required_fcf_margin,
   assumed_cagr |-> assumed_cagr]

\* Line 345: the returned tuple.
ReturnValue ==
  [fair_value |-> Round2(fair_value),
   required_rev_growth |-> required_rev_growth,
   required_discount_rate |-> required_discount_rate,
   required_fcf_margin |-> required_fcf_margin,
   assumed_cagr |-> assumed_cagr]

locals == <<rev_growth_array, fcf_margins_array, proj_fcf, discounted_fcf,
            terminal_value, fair_value, assumed_cagr>>

requireds == <<solved, success, required_rev_growth, required_discount_rate,
               required_fcf_margin>>

lookup == <<cache, attempt, stock_info, income, cashflow, trace, returned,
            response>>

vars == <<pc, inp, locals, requireds, result, exc, trip, lookup>>

\* The specifications of dcf, calc_cagr and calc_up_downside look nothing up.
NoLookup ==
  /\ cache = None /\ attempt = None
  /\ stock_info = None /\ income = None /\ cashflow = None
  /\ trace = None /\ returned = None /\ response = None

Init ==
  /\ pc = "project"
  /\ inp \in Inputs \cup EdgeInputs
  /\ trip = FALSE
  /\ rev_growth_array = None /\ fcf_margins_array = None
  /\ proj_fcf = None /\ discounted_fcf = None /\ terminal_value = None
  /\ fair_value = None /\ assumed_cagr = None
  /\ solved = <<>> /\ success = <<>>
  /\ required_rev_growth = None /\ required_discount_rate = None
  /\ required_fcf_margin = None
  /\ result = None /\ exc = None
  /\ NoLookup

\* Lines 270-281: broadcast the scalars, project the free cash flows.
\* np.full refuses a negative length; an array shorter than n_future_years
\* runs the loop off its end.
Project ==
  /\ pc = "project"
  /\ IF /\ inp.n_future_years < 0
        /\ IsScalarArg(inp.rev_growth_array)
           \/ IsScalarArg(inp.fcf_margins_array)
     THEN /\ pc' = "raised"
          /\ exc' = "ValueError"
          /\ UNCHANGED <<rev_growth_array, fcf_margins_array, proj_fcf>>
     ELSE LET g == Broadcast(inp.rev_growth_array, inp.n_future_years)
              m == Broadcast(inp.fcf_margins_array, inp.n_future_years)
          IN  /\ rev_growth_array' = g
              /\ fcf_margins_array' = m
              /\ IF Len(g) < inp.n_future_years
                    \/ Len(m) < inp.n_future_years
                 THEN /\ pc' = "raised"
                      /\ exc' = "IndexError"
                      /\ proj_fcf' = proj_fcf
                 ELSE /\ pc' = "value"
                      /\ exc' = exc
                      /\ proj_fcf' = ProjFcf(g, m, inp.n_future_years,
                                             inp.latest_revenue)
  /\ UNCHANGED <<lookup, inp, discounted_fcf, terminal_value, fair_value,
                 assumed_cagr, requireds, result, trip>>

\* Lines 283-306: discount, add the terminal value, divide by the shares,
\* compute the CAGR; in reverse_dcf_mode return the unrounded fair value.
\* With no projected year, proj_fcf[-1] raises.
Value ==
  /\ pc = "value"
  /\ IF inp.n_future_years < 1
     THEN /\ pc' = "raised"
          /\ exc' = "IndexError"
          /\ UNCHANGED <<discounted_fcf, terminal_value, fair_value,
                         assumed_cagr, result>>
     ELSE LET f == ForwardPass(rev_growth_array, fcf_margins_array,
                               inp.n_future_years, inp.latest_revenue,
                               inp.wacc, inp.tgr, inp.total_shares)
          IN  /\ discounted_fcf' = f.discounted_fcf
              /\ terminal_value' = f.terminal_value
              /\ fair_value' = f.fair_value
              /\ assumed_cagr' = calc_cagr(CagrArg(inp.rev_growth_array,
                                                   rev_growth_array),
                                           inp.n_future_years)
              /\ exc' = exc
              /\ IF inp.reverse_dcf_mode
                 THEN pc' = "done" /\ result' = [fair_value |-> f.fair_value]
                 ELSE pc' = "solve_growth" /\ result' = result
  /\ UNCHANGED <<lookup, inp, rev_growth_array, fcf_margins_array, proj_fcf,
                 requireds, trip>>

\* Lines 328-331.
SolveRevenueGrowth ==
  /\ pc = "solve_growth"
  /\ LET evals == GrowthEvals(fcf_margins_array, inp.n_future_years,
                              inp.latest_revenue, inp.wacc, inp.tgr,
                              inp.total_shares, inp.current_price)
     IN  \/ \E r \in MinimizeResults(evals) :
              /\ solved' = Append(solved, r.x)
              /\ success' = Append(success, r.success)
              /\ required_rev_growth' = Round2(RMul(Z(100), r.x))
              /\ pc' = "solve_discount"
              /\ exc' = exc
         \/ /\ NoBracket(evals)
            /\ pc' = "raised"
            /\ exc' = "RuntimeError"
            /\ UNCHANGED <<solved, success, required_rev_growth>>
  /\ UNCHANGED <<lookup, inp, locals, required_discount_rate, required_fcf_margin,
                 result, trip>>

\* Lines 333-336.
SolveDiscountRate ==
  /\ pc = "solve_discount"
  /\ LET evals == DiscountEvals(DiscountSolveGrowth, fcf_margins_array,
                                inp.n_future_years, inp.latest_revenue,
                                inp.tgr, inp.total_shares,
                                inp.current_price)
     IN  \/ \E r \in MinimizeResults(evals) :
              /\ solved' = Append(solved, r.x)
              /\ success' = Append(success, r.success)
              /\ required_discount_rate' = Round2(RMul(Z(100), r.x))
              /\ pc' = "solve_margin"
              /\ exc' = exc
         \/ /\ NoBracket(evals)
            /\ pc' = "raised"
            /\ exc' = "RuntimeError"
            /\ UNCHANGED <<solved, success, required_discount_rate>>
  /\ UNCHANGED <<lookup, inp, locals, required_rev_growth, required_fcf_margin,
                 result, trip>>

\* Lines 338-341.
SolveFcfMargin ==
  /\ pc = "solve_margin"
  /\ LET evals == MarginEvals(rev_growth_array, inp.n_future_years,
                              inp.latest_revenue, inp.wacc, inp.tgr,
                              inp.total_shares, inp.current_price)
     IN  \/ \E r \in MinimizeResults(evals) :
              /\ solved' = Append(solved, r.x)
              /\ success' = Append(success, r.success)
              /\ required_fcf_margin' = Round2(RMul(Z(100), r.x))
              /\ pc' = "return"
              /\ exc' = exc
         \/ /\ NoBracket(evals)
            /\ pc' = "raised"
            /\ exc' = "RuntimeError"
            /\ UNCHANGED <<solved, success, required_fcf_margin>>
  /\ UNCHANGED <<lookup, inp, locals, required_rev_growth, required_discount_rate,
                 result, trip>>

\* Line 345.
Return ==
  /\ pc = "return"
  /\ result' = ReturnValue
  /\ pc' = "done"
  /\ UNCHANGED <<lookup, inp, locals, requireds, exc, trip>>

\* The round trip of the specification's section 8: dcf is called again on
\* the same arguments with current_price set to the fair value it returned.
RoundTrip ==
  /\ pc = "done"
  /\ ~trip
  /\ ~inp.reverse_dcf_mode
  /\ IsFinite(result.fair_value)
  /\ inp' = [inp EXCEPT !.current_price = result.fair_value]
  /\ trip' = TRUE
  /\ pc' = "project"
  /\ rev_growth_array' = None /\ fcf_margins_array' = None
  /\ proj_fcf' = None /\ discounted_fcf' = None /\ terminal_value' = None
  /\ fair_value' = None /\ assumed_cagr' = None
  /\ solved' = <<>> /\ success' = <<>>
  /\ required_rev_growth' = None /\ required_discount_rate' = None
  /\ required_fcf_margin' = None
  /\ result' = None /\ exc' = None
  /\ UNCHANGED lookup

Next ==
  \/ Project
  \/ Value
  \/ SolveRevenueGrowth
  \/ SolveDiscountRate
  \/ SolveFcfMargin
  \/ Return
  \/ RoundTrip

Spec == Init /\ [][Next]_vars

(***************************************************************************)
(* calc_cagr called on its own (lines 407-413).                            *)
(***************************************************************************)
MaxCagrYears == 3

\* Scalar rates: below -1, -1, negative, zero, positive, and rates whose
\* percentage has more than 2 decimals (33.333..., 0.333...).
CagrScalarVals ==
  {Q(-3, 2), Z(-1), Q(-1, 2), Z(0), Q(1, 10), Q(1, 3), Q(1, 300), Q(5, 4)}

CagrUniformVals == {Q(-3, 2), Z(-1), Q(-1, 2), Z(0), Q(1, 10), Q(1, 3), Q(5, 4)}

\* Multipliers -1/2, 1/2, 2, 8.
CagrMixedVals == {Q(-3, 2), Q(-1, 2), Z(1), Z(7)}

CagrInputs ==
  (UNION {{[rev_growth_array |-> Scalar(g), N |-> N] : g \in CagrScalarVals}
          : N \in 0..MaxCagrYears})
  \cup
  (UNION {{[rev_growth_array |-> Arr(Full(N, g)), N |-> N]
           : g \in CagrUniformVals} : N \in 1..MaxCagrYears})
  \cup
  (UNION {{[rev_growth_array |-> Arr(t), N |-> N]
           : t \in {u \in [1..N -> CagrMixedVals] :
                      HasExactRoot(RAbs(FinalVal(u, N)), N)}}
          : N \in 1..MaxCagrYears})

InitCagr ==
  /\ pc = "cagr_call"
  /\ inp \in CagrInputs
  /\ trip = FALSE
  /\ rev_growth_array = None /\ fcf_margins_array = None
  /\ proj_fcf = None /\ discounted_fcf = None /\ terminal_value = None
  /\ fair_value = None /\ assumed_cagr = None
  /\ solved = <<>> /\ success = <<>>
  /\ required_rev_growth = None /\ required_discount_rate = None
  /\ required_fcf_margin = None
  /\ result = None /\ exc = None
  /\ NoLookup

\* Lines 407-413.
CalcCagr ==
  /\ pc = "cagr_call"
  /\ result' = calc_cagr(inp.rev_growth_array, inp.N)
  /\ pc' = "cagr_done"
  /\ UNCHANGED <<lookup, inp, locals, requireds, exc, trip>>

NextCagr == CalcCagr

SpecCagr == InitCagr /\ [][NextCagr]_vars

(***************************************************************************)
(* Properties of dcf.                                                      *)
(***************************************************************************)
\* The caller's g_i and m_i: the scalar for every year, or the i-th value.
GrowthOfYear(i) ==
  IF IsScalarArg(inp.rev_growth_array) THEN inp.rev_growth_array.v[1]
  ELSE inp.rev_growth_array.v[i]

MarginOfYear(i) ==
  IF IsScalarArg(inp.fcf_margins_array) THEN inp.fcf_margins_array.v[1]
  ELSE inp.fcf_margins_array.v[i]

\* revenue_i = latestRevenue * (1+g_1) * ... * (1+g_i)
RECURSIVE RevenueOfYear(_)
RevenueOfYear(i) ==
  IF i = 0 THEN inp.latest_revenue
  ELSE RMul(RAdd(Z(1), GrowthOfYear(i)), RevenueOfYear(i - 1))

FcfOfYear(i) == RMul(MarginOfYear(i), RevenueOfYear(i))

\* SUM_{i=1..k} FCF_i / (1+d)^i
RECURSIVE SumOfDiscounted(_)
SumOfDiscounted(k) ==
  IF k = 0 THEN Z(0)
  ELSE RAdd(RDiv(FcfOfYear(k), RPow(RAdd(Z(1), inp.wacc), k)),
            SumOfDiscounted(k - 1))

ClosedFormFairValue ==
  LET n == inp.n_future_years
      d == inp.wacc
      t == inp.tgr
  IN  RDiv(RAdd(SumOfDiscounted(n),
                RDiv(RMul(FcfOfYear(n), RAdd(Z(1), t)),
                     RMul(RSub(d, t), RPow(RAdd(Z(1), d), n)))),
           inp.total_shares)

\* C1: for n >= 1, d # t and s > 0 the fair value per share dcf computes is
\* (SUM_i FCF_i/(1+d)^i + FCF_n*(1+t)/((d-t)*(1+d)^n)) / s.
C1_FairValueClosedForm ==
  (/\ fair_value # None
   /\ inp.n_future_years >= 1
   /\ inp.wacc # inp.tgr
   /\ RLess(Z(0), inp.total_shares))
  => fair_value = ClosedFormFairValue

\* A call with a non-uniform growth array over two years or more has
\* computed a non-zero fair value.
C1_Witness ==
  /\ fair_value # None
  /\ inp.wacc # inp.tgr
  /\ inp.n_future_years >= 2
  /\ ~IsScalarArg(inp.rev_growth_array)
  /\ inp.rev_growth_array.v[1] # inp.rev_growth_array.v[2]
  /\ ~IsScalarArg(inp.fcf_margins_array)
  /\ IsFinite(fair_value) /\ fair_value # Z(0)

\* r is a result the full dcf can return on the arguments a.
IsDcfOutcome(r, a) ==
  LET n == a.n_future_years
      g == Broadcast(a.rev_growth_array, n)
      m == Broadcast(a.fcf_margins_array, n)
      fv == dcf_reverse_mode(g, m, n, a.latest_revenue, a.wacc, a.tgr,
                             a.total_shares)
  IN  IF a.reverse_dcf_mode THEN r = [fair_value |-> fv]
      ELSE
        /\ r.fair_value = Round2(fv)
        /\ r.assumed_cagr = calc_cagr(CagrArg(a.rev_growth_array, g), n)
        /\ \E x \in MinimizeXs(GrowthEvals(
                        m, n, a.latest_revenue, a.wacc, a.tgr,
                        a.total_shares, a.current_price)) :
             r.required_rev_growth = Round2(RMul(Z(100), x))
        /\ \E x \in MinimizeXs(DiscountEvals(
                        g, m, n, a.latest_revenue, a.tgr, a.total_shares,
                        a.current_price)) :
             r.required_discount_rate = Round2(RMul(Z(100), x))
        /\ \E x \in MinimizeXs(MarginEvals(
                        g, n, a.latest_revenue, a.wacc, a.tgr,
                        a.total_shares, a.current_price)) :
             r.required_fcf_margin = Round2(RMul(Z(100), x))

\* The argument x as the other of scalar and uniform array of n values.
IsUniform(a, n) ==
  IsScalarArg(a) \/ (Len(a.v) = n /\ \A i \in 1..n : a.v[i] = a.v[1])

Swapped(a, n) == IF IsScalarArg(a) THEN Arr(Full(n, a.v[1])) ELSE Scalar(a.v[1])

\* C2: dcf on a scalar growth g returns what it returns on the array [g]*n,
\* and the same for a scalar margin and its uniform array.
C2_BroadcastEquivalence ==
  (pc = "done" /\ inp.n_future_years >= 1)
  => /\ IsUniform(inp.rev_growth_array, inp.n_future_years)
        => IsDcfOutcome(result,
             [inp EXCEPT !.rev_growth_array =
                Swapped(inp.rev_growth_array, inp.n_future_years)])
     /\ IsUniform(inp.fcf_margins_array, inp.n_future_years)
        => IsDcfOutcome(result,
             [inp EXCEPT !.fcf_margins_array =
                Swapped(inp.fcf_margins_array, inp.n_future_years)])

\* A full call on a scalar growth below -1 over two years or more returned.
C2_Witness ==
  /\ pc = "done"
  /\ ~inp.reverse_dcf_mode
  /\ inp.n_future_years >= 2
  /\ IsScalarArg(inp.rev_growth_array)
  /\ RLess(inp.rev_growth_array.v[1], Z(-1))
  /\ IsFinite(result.fair_value) /\ result.fair_value # Z(0)

\* C3 (as claimed): with discountRate = terminalGrowthRate the call fails
\* with a DomainError and never computes an infinite or NaN fair value.
C3_SingularityFails ==
  inp.wacc = inp.tgr
  => /\ pc # "done"
     /\ fair_value # None => IsFinite(fair_value)
     /\ pc = "raised" => exc = "DomainError"

\* The distance between the returned required discount rate and 100*d is at
\* most 0.05.
DiscountRateRecovered ==
  RLeq(RAbs(RSub(result.required_discount_rate, RMul(Z(100), inp.wacc))),
       Q(1, 20))

DiscountObjectiveAt(c) ==
  reverse_dcf_discount_rate(c, Broadcast(inp.rev_growth_array,
                                         inp.n_future_years),
                            Broadcast(inp.fcf_margins_array,
                                      inp.n_future_years),
                            inp.n_future_years, inp.latest_revenue, inp.tgr,
                            inp.total_shares, inp.current_price)

C5_SolvesIndependent ==
  (pc = "done" /\ ~inp.reverse_dcf_mode)
  => LET n == inp.n_future_years
         g == Broadcast(inp.rev_growth_array, n)
         m == Broadcast(inp.fcf_margins_array, n)
     IN  /\ Len(solved) = 3
         /\ solved[1] \in MinimizeXs(GrowthEvals(
                              m, n, inp.latest_revenue, inp.wacc, inp.tgr,
                              inp.total_shares, inp.current_price))
         /\ solved[2] \in MinimizeXs(DiscountEvals(
                              g, m, n, inp.latest_revenue, inp.tgr,
                              inp.total_shares, inp.current_price))
         /\ solved[3] \in MinimizeXs(MarginEvals(
                              g, n, inp.latest_revenue, inp.wacc, inp.tgr,
                              inp.total_shares, inp.current_price))

\* A full call whose solved growth differs from the caller's growth, and
\* whose solved discount rate and margin differ from the caller's, returned.
C5_Witness ==
  /\ pc = "done" /\ ~inp.reverse_dcf_mode
  /\ IsScalarArg(inp.rev_growth_array)
  /\ solved[1] # inp.rev_growth_array.v[1]
  /\ solved[2] # inp.wacc
  /\ IsFinite(fair_value) /\ fair_value # Z(0)

FullResultNames ==
  {"fair_value", "required_rev_growth", "required_discount_rate",
   "required_fcf_margin", "assumed_cagr"}

\* C6 (as claimed): what dcf returns carries, next to the fair value, the
\* projected FCF path of exactly n values.
C6_PathReturnedAsClaimed ==
  pc = "done"
  => /\ "proj_fcf" \in DOMAIN result
     /\ Len(result.proj_fcf) = inp.n_future_years

\* C6 (amended): the forward pass computes a projected FCF path of exactly
\* n values but does not return it: dcf returns the five named values, or
\* the fair value alone in reverse mode.
C6_PathComputedNotReturned ==
  pc = "done"
  => /\ Len(proj_fcf) = inp.n_future_years
     /\ "proj_fcf" \notin DOMAIN result
     /\ DOMAIN result = IF inp.reverse_dcf_mode THEN {"fair_value"}
                        ELSE FullResultNames

\* A full call over two years or more returned.
C6_Witness ==
  /\ pc = "done" /\ ~inp.reverse_dcf_mode
  /\ inp.n_future_years >= 2
  /\ Len(proj_fcf) = inp.n_future_years
  /\ proj_fcf[1] # proj_fcf[2]

\* x is unchanged by rounding to 2 decimals.
IsRounded2(x) == Round2(x) = x

\* C7: in the full result the fair value is the computed one rounded to 2
\* decimals, each required value is 100 times the solved rate rounded to 2
\* decimals, and all five components are rounded to 2 decimals.
C7_ResultRounded ==
  (pc = "done" /\ ~inp.reverse_dcf_mode)
  => /\ result.fair_value = Round2(fair_value)
     /\ result.required_rev_growth = Round2(RMul(Z(100), solved[1]))
     /\ result.required_discount_rate = Round2(RMul(Z(100), solved[2]))
     /\ result.required_fcf_margin = Round2(RMul(Z(100), solved[3]))
     /\ \A k \in FullResultNames : IsRounded2(result[k])

\* A full call returned a fair value that rounding changed and a required
\* margin that rounding changed.
C7_Witness ==
  /\ pc = "done" /\ ~inp.reverse_dcf_mode
  /\ IsFinite(fair_value)
  /\ result.fair_value # fair_value
  /\ result.required_fcf_margin # RMul(Z(100), solved[3])

\* C8: on the concrete scenario the discounted FCF sum is 1,000,000, the
\* discounted terminal value 2,733,333.33 and the returned fair value 37.33.
C8_ConcreteScenario ==
  (/\ pc = "done"
   /\ inp = Scenario)
  => /\ discounted_fcf = Z(1000000)
     /\ terminal_value = Q(8200000, 3)
     /\ Round2(terminal_value) = Q(273333333, 100)
     /\ result.fair_value = Q(3733, 100)

\* The scenario's call returned.
C8_Witness ==
  /\ pc = "done"
  /\ inp = Scenario
  /\ result.fair_value = Q(3733, 100)

(***************************************************************************)
(* Properties of calc_cagr.                                                *)
(***************************************************************************)
\* C9: for a scalar g, calc_cagr(g, N) is 100*g rounded to 2 decimals,
\* whatever N is.
C9_ScalarCagr ==
  (pc = "cagr_done" /\ IsScalarArg(inp.rev_growth_array))
  => result = Round2(RMul(Z(100), inp.rev_growth_array.v[1]))

\* calc_cagr returned for a scalar whose percentage rounding changes, with
\* N at least 2.
C9_Witness ==
  /\ pc = "cagr_done"
  /\ IsScalarArg(inp.rev_growth_array)
  /\ inp.N >= 2
  /\ result # RMul(Z(100), inp.rev_growth_array.v[1])
  /\ result = Q(3333, 100)

\* C10 (as claimed): for every g and N >= 1, calc_cagr([g]*N, N) is
\* calc_cagr(g, N), that is 100*g rounded to 2 decimals.
C10_UniformCollapses ==
  (/\ pc = "cagr_done"
   /\ ~IsScalarArg(inp.rev_growth_array)
   /\ inp.N >= 1
   /\ IsUniform(inp.rev_growth_array, inp.N))
  => /\ result = calc_cagr(Scalar(inp.rev_growth_array.v[1]), inp.N)
     /\ result = Round2(RMul(Z(100), inp.rev_growth_array.v[1]))

\* C11 (as claimed): for a growth path whose compounded multiplier is
\* negative, calc_cagr returns a number that is not NaN and is negative.
C11_NegativeMultiplier ==
  (/\ pc = "cagr_done"
   /\ ~IsScalarArg(inp.rev_growth_array)
   /\ RLess(FinalVal(inp.rev_growth_array.v, Len(inp.rev_growth_array.v)),
            Z(0)))
  => /\ ~IsNaN(result)
     /\ RLess(result, Z(0))

(***************************************************************************)
(* calc_up_downside called on its own (lines 347-353).                     *)
(***************************************************************************)
\* Variant: the overvalued branch without its leading minus.
calc_up_downside_unsigned(fair_val, cur_price) ==
  IF RLess(cur_price, fair_val)
  THEN Round2(RMul(RDiv(RSub(fair_val, cur_price), cur_price), Z(100)))
  ELSE Round2(RMul(Z(100), RDiv(RSub(cur_price, fair_val), cur_price)))

calc_up_downside(fair_val, cur_price) ==
  IF RLess(cur_price, fair_val)
  THEN Round2(RMul(RDiv(RSub(fair_val, cur_price), cur_price), Z(100)))
  ELSE Round2(RMul(Z(-100), RDiv(RSub(cur_price, fair_val), cur_price)))

\* Fair values: negative, zero, below, at and above the prices, within
\* 0.005 % of a price on both sides, and the non-finite values dcf can
\* return.
UpDownFairVals ==
  {Z(-20), Z(0), Z(1), Z(3), Q(3733, 100), Z(50), Z(80), Q(24999, 250),
   Z(100), Q(25001, 250), Z(120), Inf, NaN}

UpDownPrices == {Z(1), Z(3), Z(50), Z(100), Q(2405, 10)}

InitUpDown ==
  /\ pc = "updown_call"
  /\ inp \in [fair_value : UpDownFairVals, current_price : UpDownPrices]
  /\ trip = FALSE
  /\ rev_growth_array = None /\ fcf_margins_array = None
  /\ proj_fcf = None /\ discounted_fcf = None /\ terminal_value = None
  /\ fair_value = None /\ assumed_cagr = None
  /\ solved = <<>> /\ success = <<>>
  /\ required_rev_growth = None /\ required_discount_rate = None
  /\ required_fcf_margin = None
  /\ result = None /\ exc = None
  /\ NoLookup

\* Lines 347-353.
CalcUpDownside ==
  /\ pc = "updown_call"
  /\ result' = calc_up_downside(inp.fair_value, inp.current_price)
  /\ pc' = "updown_done"
  /\ UNCHANGED <<lookup, inp, locals, requireds, exc, trip>>

NextUpDown == CalcUpDownside

SpecUpDown == InitUpDown /\ [][NextUpDown]_vars

\* (fairValue - currentPrice) / currentPrice * 100, rounded to 2 decimals.
UpDownPercent ==
  Round2(RMul(RDiv(RSub(inp.fair_value, inp.current_price),
                   inp.current_price), Z(100)))

\* C12 (as claimed): for currentPrice > 0 calc_up_downside returns
\* (fairValue - currentPrice)/currentPrice*100 rounded to 2 decimals, which
\* is positive when the fair value exceeds the price and negative when it
\* is below.
C12_UpDownsideAsClaimed ==
  (pc = "updown_done" /\ RLess(Z(0), inp.current_price))
  => /\ result = UpDownPercent
     /\ RLess(inp.current_price, inp.fair_value) => RLess(Z(0), result)
     /\ RLess(inp.fair_value, inp.current_price) => RLess(result, Z(0))

\* C12 (amended): for currentPrice > 0 both branches of calc_up_downside
\* return (fairValue - currentPrice)/currentPrice*100 rounded to 2
\* decimals; the result is never negative when the fair value exceeds the
\* price and never positive when it is below, and it is 0 when the
\* unrounded percentage is within 0.005 of 0.
C12_UpDownside ==
  (pc = "updown_done" /\ RLess(Z(0), inp.current_price))
  => /\ result = UpDownPercent
     /\ RLess(inp.current_price, inp.fair_value) => RLeq(Z(0), result)
     /\ RLess(inp.fair_value, inp.current_price) => RLeq(result, Z(0))
     /\ (inp.fair_value = Z(120) /\ inp.current_price = Z(100))
        => result = Z(20)
     /\ (inp.fair_value = Z(80) /\ inp.current_price = Z(100))
        => result = Z(-20)

\* The overvalued branch returned a negative percentage that rounding
\* changed.
C12_Witness ==
  /\ pc = "updown_done"
  /\ RLess(inp.fair_value, inp.current_price)
  /\ RLess(result, Z(0))
  /\ result # RMul(RDiv(RSub(inp.fair_value, inp.current_price),
                        inp.current_price), Z(100))

(***************************************************************************)
(* Properties of dcf on arguments outside its domain.                      *)
(***************************************************************************)
\* The call has got past its forward pass, into the solves or to its end.
PastForwardPass ==
  pc \in {"solve_growth", "solve_discount", "solve_margin", "return", "done"}

\* C13 (as claimed): a full valuation with currentPrice <= 0 or
\* totalShares <= 0 starts no reverse solve, returns no solved value and
\* fails with a DomainError.
C13_PriceAndSharesChecked ==
  (/\ ~inp.reverse_dcf_mode
   /\ RLeq(inp.current_price, Z(0)) \/ RLeq(inp.total_shares, Z(0)))
  => /\ ~PastForwardPass
     /\ solved = <<>>
     /\ pc = "raised" => exc = "DomainError"

\* C14 (as claimed): with years <= 0 dcf fails with a DomainError before
\* any projection or terminal-value computation.
C14_HorizonChecked ==
  inp.n_future_years <= 0
  => /\ pc \in {"project", "raised"}
     /\ pc = "raised" => exc = "DomainError"

\* A per-year sequence was passed whose length is not n_future_years.
LengthMismatch ==
  \/ /\ ~IsScalarArg(inp.rev_growth_array)
     /\ Len(inp.rev_growth_array.v) # inp.n_future_years
  \/ /\ ~IsScalarArg(inp.fcf_margins_array)
     /\ Len(inp.fcf_margins_array.v) # inp.n_future_years

\* C15 (as claimed): a sequence shorter or longer than years makes dcf fail
\* with a DomainError; a longer one is never cut to its first entries and
\* valued.
C15_LengthChecked ==
  (inp.n_future_years >= 1 /\ LengthMismatch)
  => /\ fair_value = None
     /\ pc # "done"
     /\ pc = "raised" => exc = "DomainError"

\* C16 (as claimed): a minimiser result that did not converge, or whose .x
\* is not finite, is never rounded into a required rate and never part of
\* a returned valuation.
C16_ConvergenceChecked ==
  /\ \A k \in 1..Len(success) : success[k] /\ IsFinite(solved[k])
  /\ pc = "done" /\ ~inp.reverse_dcf_mode
     => /\ IsFinite(result.required_rev_growth)
        /\ IsFinite(result.required_discount_rate)
        /\ IsFinite(result.required_fcf_margin)

(***************************************************************************)
(* Two calls of dcf in flight at once.  Every variable holds one value per *)
(* call; inp holds the argument objects both calls were handed (the two    *)
(* per-year arguments, the revenue, the share count and the price are the  *)
(* same objects for both) and each call's own horizon, rates and mode.     *)
(***************************************************************************)
Calls == {1, 2}

\* Variant: the broadcast is written into the argument the caller passed.
ArgumentBroadcastInPlace(a, n) == Arr(Broadcast(a, n))

\* Lines 270-274: the caller's argument object after the broadcast.  The
\* assignment rebinds the local name; the object passed is not written.
ArgumentAfterBroadcast(a, n) == a

SharedGrowthArgs ==
  {Scalar(Q(1, 10)), Scalar(Q(-31, 20)), Arr(<<Q(-19, 30), Q(23, 10)>>)}

SharedMarginArgs == {Scalar(Q(1, 5)), Arr(<<Z(0), Q(1, 5)>>)}

CallParams(waccs, modes) ==
  [n_future_years : {1, 2}, wacc : waccs, tgr : {Q(1, 40)},
   reverse_dcf_mode : modes]

\* The arguments of call c, as one call of dcf receives them.
ArgsOf(c) ==
  [rev_growth_array |-> inp.rev_growth_array,
   fcf_margins_array |-> inp.fcf_margins_array,
   n_future_years |-> inp.calls[c].n_future_years,
   latest_revenue |-> inp.latest_revenue,
   wacc |-> inp.calls[c].wacc,
   tgr |-> inp.calls[c].tgr,
   total_shares |-> inp.total_shares,
   current_price |-> inp.current_price,
   reverse_dcf_mode |-> inp.calls[c].reverse_dcf_mode]

Each(x) == [c \in Calls |-> x]

InitReentrant ==
  /\ pc = Each("project")
  /\ \E g \in SharedGrowthArgs, m \in SharedMarginArgs,
        c1 \in CallParams({Q(1, 10)}, {FALSE}),
        c2 \in CallParams(WaccVals, BOOLEAN) :
       inp = [rev_growth_array |-> g, fcf_margins_array |-> m,
              latest_revenue |-> Z(1000000), total_shares |-> Z(100000),
              current_price |-> Z(50), calls |-> <<c1, c2>>]
  /\ trip = FALSE
  /\ rev_growth_array = Each(None) /\ fcf_margins_array = Each(None)
  /\ proj_fcf = Each(None) /\ discounted_fcf = Each(None)
  /\ terminal_value = Each(None)
  /\ fair_value = Each(None) /\ assumed_cagr = Each(None)
  /\ solved = Each(<<>>) /\ success = Each(<<>>)
  /\ required_rev_growth = Each(None) /\ required_discount_rate = Each(None)
  /\ required_fcf_margin = Each(None)
  /\ result = Each(None) /\ exc = Each(None)
  /\ NoLookup

\* Lines 270-281, for call c.
ProjectOf(c) ==
  /\ pc[c] = "project"
  /\ LET a == ArgsOf(c)
         g == Broadcast(a.rev_growth_array, a.n_future_years)
         m == Broadcast(a.fcf_margins_array, a.n_future_years)
     IN  /\ rev_growth_array' = [rev_growth_array EXCEPT ![c] = g]
         /\ fcf_margins_array' = [fcf_margins_array EXCEPT ![c] = m]
         /\ inp' = [inp EXCEPT
                      !.rev_growth_array =
                         ArgumentAfterBroadcast(@, a.n_future_years),
                      !.fcf_margins_array =
                         ArgumentAfterBroadcast(@, a.n_future_years)]
         /\ IF Len(g) < a.n_future_years \/ Len(m) < a.n_future_years
            THEN /\ pc' = [pc EXCEPT ![c] = "raised"]
                 /\ exc' = [exc EXCEPT ![c] = "IndexError"]
                 /\ proj_fcf' = proj_fcf
            ELSE /\ pc' = [pc EXCEPT ![c] = "value"]
                 /\ exc' = exc
                 /\ proj_fcf' = [proj_fcf EXCEPT ![c] =
                                   ProjFcf(g, m, a.n_future_years,
                                           a.latest_revenue)]
  /\ UNCHANGED <<lookup, discounted_fcf, terminal_value, fair_value, assumed_cagr,
                 requireds, result, trip>>

\* Lines 283-306, for call c.
ValueOf(c) ==
  /\ pc[c] = "value"
  /\ LET a == ArgsOf(c)
         f == ForwardPass(rev_growth_array[c], fcf_margins_array[c],
                          a.n_future_years, a.latest_revenue, a.wacc, a.tgr,
                          a.total_shares)
     IN  /\ discounted_fcf' = [discounted_fcf EXCEPT ![c] = f.discounted_fcf]
         /\ terminal_value' = [terminal_value EXCEPT ![c] = f.terminal_value]
         /\ fair_value' = [fair_value EXCEPT ![c] = f.fair_value]
         /\ assumed_cagr' =
              [assumed_cagr EXCEPT ![c] =
                 calc_cagr(CagrArg(a.rev_growth_array, rev_growth_array[c]),
                           a.n_future_years)]
         /\ IF a.reverse_dcf_mode
            THEN /\ pc' = [pc EXCEPT ![c] = "done"]
                 /\ result' = [result EXCEPT ![c] =
                                 [fair_value |-> f.fair_value]]
            ELSE /\ pc' = [pc EXCEPT ![c] = "solve_growth"]
                 /\ result' = result
  /\ UNCHANGED <<lookup, inp, rev_growth_array, fcf_margins_array, proj_fcf,
                 requireds, exc, trip>>

\* Lines 328-331, for call c.
SolveRevenueGrowthOf(c) ==
  /\ pc[c] = "solve_growth"
  /\ LET a == ArgsOf(c)
         evals == GrowthEvals(fcf_margins_array[c], a.n_future_years,
                              a.latest_revenue, a.wacc, a.tgr,
                              a.total_shares, a.current_price)
     IN  \/ \E r \in MinimizeResults(evals) :
              /\ solved' = [solved EXCEPT ![c] = Append(@, r.x)]
              /\ success' = [success EXCEPT ![c] = Append(@, r.success)]
              /\ required_rev_growth' =
                   [required_rev_growth EXCEPT ![c] =
                      Round2(RMul(Z(100), r.x))]
              /\ pc' = [pc EXCEPT ![c] = "solve_discount"]
              /\ exc' = exc
         \/ /\ NoBracket(evals)
            /\ pc' = [pc EXCEPT ![c] = "raised"]
            /\ exc' = [exc EXCEPT ![c] = "RuntimeError"]
            /\ UNCHANGED <<solved, success, required_rev_growth>>
  /\ UNCHANGED <<lookup, inp, locals, required_discount_rate, required_fcf_margin,
                 result, trip>>

\* Lines 333-336, for call c.
SolveDiscountRateOf(c) ==
  /\ pc[c] = "solve_discount"
  /\ LET a == ArgsOf(c)
         evals == DiscountEvals(rev_growth_array[c], fcf_margins_array[c],
                                a.n_future_years, a.latest_revenue, a.tgr,
                                a.total_shares, a.current_price)
     IN  \/ \E r \in MinimizeResults(evals) :
              /\ solved' = [solved EXCEPT ![c] = Append(@, r.x)]
              /\ success' = [success EXCEPT ![c] = Append(@, r.success)]
              /\ required_discount_rate' =
                   [required_discount_rate EXCEPT ![c] =
                      Round2(RMul(Z(100), r.x))]
              /\ pc' = [pc EXCEPT ![c] = "solve_margin"]
              /\ exc' = exc
         \/ /\ NoBracket(evals)
            /\ pc' = [pc EXCEPT ![c] = "raised"]
            /\ exc' = [exc EXCEPT ![c] = "RuntimeError"]
            /\ UNCHANGED <<solved, success, required_discount_rate>>
  /\ UNCHANGED <<lookup, inp, locals, required_rev_growth, required_fcf_margin,
                 result, trip>>

\* Lines 338-341, for call c.
SolveFcfMarginOf(c) ==
  /\ pc[c] = "solve_margin"
  /\ LET a == ArgsOf(c)
         evals == MarginEvals(rev_growth_array[c], a.n_future_years,
                              a.latest_revenue, a.wacc, a.tgr,
                              a.total_shares, a.current_price)
     IN  \/ \E r \in MinimizeResults(evals) :
              /\ solved' = [solved EXCEPT ![c] = Append(@, r.x)]
              /\ success' = [success EXCEPT ![c] = Append(@, r.success)]
              /\ required_fcf_margin' =
                   [required_fcf_margin EXCEPT ![c] =
                      Round2(RMul(Z(100), r.x))]
              /\ pc' = [pc EXCEPT ![c] = "return"]
              /\ exc' = exc
         \/ /\ NoBracket(evals)
            /\ pc' = [pc EXCEPT ![c] = "raised"]
            /\ exc' = [exc EXCEPT ![c] = "RuntimeError"]
            /\ UNCHANGED <<solved, success, required_fcf_margin>>
  /\ UNCHANGED <<lookup, inp, locals, required_rev_growth, required_discount_rate,
                 result, trip>>

\* Line 345, for call c.
ReturnOf(c) ==
  /\ pc[c] = "return"
  /\ result' = [result EXCEPT ![c] =
                  [fair_value |-> Round2(fair_value[c]),
                   required_rev_growth |-> required_rev_growth[c],
                   required_discount_rate |-> required_discount_rate[c],
                   required_fcf_margin |-> required_fcf_margin[c],
                   assumed_cagr |-> assumed_cagr[c]]]
  /\ pc' = [pc EXCEPT ![c] = "done"]
  /\ UNCHANGED <<lookup, inp, locals, requireds, exc, trip>>

ProjectStep == \E c \in Calls : ProjectOf(c)
ValueStep == \E c \in Calls : ValueOf(c)
SolveRevenueGrowthStep == \E c \in Calls : SolveRevenueGrowthOf(c)
SolveDiscountRateStep == \E c \in Calls : SolveDiscountRateOf(c)
SolveFcfMarginStep == \E c \in Calls : SolveFcfMarginOf(c)
ReturnStep == \E c \in Calls : ReturnOf(c)

NextReentrant ==
  \/ ProjectStep
  \/ ValueStep
  \/ SolveRevenueGrowthStep
  \/ SolveDiscountRateStep
  \/ SolveFcfMarginStep
  \/ ReturnStep

SpecReentrant == InitReentrant /\ [][NextReentrant]_vars

\* Every call that has returned holds a result dcf can return when it runs
\* alone on that call's arguments.
ResultsAsAlone ==
  \A c \in Calls : pc[c] = "done" => IsDcfOutcome(result[c], ArgsOf(c))

\* C17: however two calls of dcf are interleaved, no step of either writes
\* the arguments they were handed, and each call returns a result it
\* returns when run alone on its arguments.
C17_Reentrant == []ResultsAsAlone /\ [][inp' = inp]_vars

\* Both calls have returned, on different horizons and discount rates, with
\* different fair values.
C17_Witness ==
  /\ pc = Each("done")
  /\ ~inp.calls[2].reverse_dcf_mode
  /\ inp.calls[1].n_future_years # inp.calls[2].n_future_years
  /\ inp.calls[1].wacc # inp.calls[2].wacc
  /\ result[1].fair_value # result[2].fair_value

(***************************************************************************)
(* The CAGR that dcf reports for a scalar growth rate.                     *)
(***************************************************************************)
\* C19 (as claimed): for a scalar revenueGrowth g and years >= 1, the
\* assumed CAGR that a full valuation returns is 100*g rounded to 2
\* decimals, for g < -1 as well.
C19_ScalarCagrReported ==
  (/\ pc = "done"
   /\ ~inp.reverse_dcf_mode
   /\ IsScalarArg(inp.rev_growth_array)
   /\ inp.n_future_years >= 1)
  => result.assumed_cagr = Round2(RMul(Z(100), inp.rev_growth_array.v[1]))

(***************************************************************************)
(* get_info of src/src/provider.py: the memoised ticker lookup, its retry  *)
(* loop over the yfinance fetch and its fallback to the chart API.         *)
(***************************************************************************)
Tickers == {"AAPL", "INFY.NS"}

\* What the provider serves changes between fetches: the price of a quote,
\* and whether the statements hold the rows that lines 204-215 read.
Quotes == {100, 101}

Statements == {"full", "lacking"}

\* The substrings that lines 142 and 157 look for in the lowered message.
Markers == {"429", "too many requests", "404", "not found"}

\* Line 136: "empty or invalid stock info received" holds none of them.
InvalidInfoMessage == {}

\* Line 121.
max_retries == 3

\* Line 122: the for loop hands out 0, 1, 2.
NextAttemptStuck(a) == a

NextAttempt(a) == a + 1

\* Lines 143 and 160: the pass of the loop is its last one.
LastAttemptAlways(a) == TRUE

LastAttemptNever(a) == FALSE

LastAttempt(a) == a = max_retries - 1

\* The branch taken when only the status codes are looked for.
ErrorClassStatusOnly(error_str) ==
  IF "429" \in error_str THEN "rate_limit"
  ELSE IF "404" \in error_str THEN "not_found"
  ELSE "other"

\* Lines 142, 157, 159: the branch of the handler an error message takes.
ErrorClass(error_str) ==
  IF "429" \in error_str \/ "too many requests" \in error_str
    THEN "rate_limit"
  ELSE IF "404" \in error_str \/ "not found" \in error_str
    THEN "not_found"
  ELSE "other"

\* Line 111: functools.cache keeps the returned value under the argument.
CacheStoreNothing(c, t, r) == c

CacheStore(c, t, r) == [c EXCEPT ![t] = r]

\* Line 111: an exception leaves the wrapper before anything is kept.
CacheAfterRaiseStored(c, t) == [c EXCEPT ![t] = <<"Exception">>]

CacheAfterRaise(c, t) == c

\* Lines 204-266: the 7 values get_info returns, the price taken from
\* stock_info and the table naming the ticker.
InfoResult(t, info) ==
  <<info[2], "total_shares", "prev_rev_growth", "starting_rev",
    "prev_fcf_margin", t, "extra_info">>

\* Between two calls: before the first, or after a return or a raise.
Idle == pc \in {"idle", "returned", "raised"}

InitInfo ==
  /\ pc = "idle"
  /\ inp = None
  /\ cache = [t \in Tickers |-> None]
  /\ returned = [t \in Tickers |-> None]
  /\ attempt = None
  /\ stock_info = None /\ income = None /\ cashflow = None
  /\ trace = <<>>
  /\ response = None
  /\ trip = FALSE
  /\ rev_growth_array = None /\ fcf_margins_array = None
  /\ proj_fcf = None /\ discounted_fcf = None /\ terminal_value = None
  /\ fair_value = None /\ assumed_cagr = None
  /\ solved = <<>> /\ success = <<>>
  /\ required_rev_growth = None /\ required_discount_rate = None
  /\ required_fcf_margin = None
  /\ result = None /\ exc = None

dcf_state == <<locals, requireds, trip>>

\* Line 111: a call whose ticker the cache holds returns the kept value; the
\* body of get_info does not run.
CacheHit ==
  /\ Idle
  /\ \E t \in Tickers :
       /\ cache[t] # None
       /\ inp' = [ticker |-> t]
       /\ result' = cache[t]
       /\ returned' = [returned EXCEPT ![t] = cache[t]]
  /\ pc' = "returned"
  /\ exc' = None
  /\ trace' = <<>>
  /\ attempt' = None
  /\ stock_info' = None /\ income' = None /\ cashflow' = None
  /\ response' = None
  /\ UNCHANGED <<cache, dcf_state>>

\* Lines 111-122: a call whose ticker the cache does not hold enters the body.
CacheMiss ==
  /\ Idle
  /\ \E t \in Tickers :
       /\ cache[t] = None
       /\ inp' = [ticker |-> t]
  /\ pc' = "attempt"
  /\ attempt' = 0
  /\ result' = None /\ exc' = None
  /\ trace' = <<>>
  /\ stock_info' = None /\ income' = None /\ cashflow' = None
  /\ response' = None
  /\ UNCHANGED <<cache, returned, dcf_state>>

\* Lines 140-162: the handler of an error whose lowered message holds the
\* markers error_str.
Except(error_str) ==
  LET class == ErrorClass(error_str)
      last == LastAttempt(attempt)
  IN  /\ trace' = Append(trace, <<"primary", class, error_str>>)
      /\ \/ /\ class = "rate_limit" /\ last
            /\ pc' = "fallback"
            /\ UNCHANGED <<attempt, exc>>
         \/ /\ class = "rate_limit" /\ ~last
            /\ pc' = "attempt"
            /\ attempt' = NextAttempt(attempt)
            /\ exc' = exc
         \/ /\ class = "not_found"
            /\ pc' = "raised"
            /\ exc' = "Exception: ticker not found"
            /\ attempt' = attempt
         \/ /\ class = "other" /\ last
            /\ pc' = "raised"
            /\ exc' = "Exception: failed to fetch data"
            /\ attempt' = attempt
         \/ /\ class = "other" /\ ~last
            /\ pc' = "attempt"
            /\ attempt' = NextAttempt(attempt)
            /\ exc' = exc

\* Lines 123-162: one pass of the retry loop. The fetch delivers valid stock
\* info and the statements, or stock info that is empty or has fewer than 5
\* fields, or fails with an error.
PrimaryAttempt ==
  /\ pc = "attempt"
  /\ attempt < max_retries
  /\ \/ /\ \E q \in Quotes, s \in Statements :
             /\ stock_info' = <<"info", q>>
             /\ income' = <<"income_stmt", s>>
             /\ cashflow' = <<"cashflow", s>>
        /\ trace' = Append(trace, <<"primary", "ok">>)
        /\ pc' = "process"
        /\ UNCHANGED <<attempt, exc>>
     \/ /\ \E s \in Statements :
             /\ stock_info' = <<"short">>
             /\ income' = <<"income_stmt", s>>
             /\ cashflow' = <<"cashflow", s>>
        /\ Except(InvalidInfoMessage)
     \/ /\ \E error_str \in SUBSET Markers : Except(error_str)
        /\ UNCHANGED <<stock_info, income, cashflow>>
  /\ cache' = IF pc' = "raised" THEN CacheAfterRaise(cache, inp.ticker)
               ELSE cache
  /\ UNCHANGED <<inp, returned, result, response, dcf_state>>

\* Lines 146-156 and 56-91: get_basic_stock_data returns the 5 fields of the
\* chart API, or None.
Fallback ==
  /\ pc = "fallback"
  /\ \/ /\ \E q \in Quotes : stock_info' = <<"basic", q>>
        /\ income' = None /\ cashflow' = None
        /\ trace' = Append(trace, <<"fallback", "data">>)
        /\ pc' = "process"
        /\ exc' = exc
     \/ /\ trace' = Append(trace, <<"fallback", "none">>)
        /\ pc' = "raised"
        /\ exc' = "Exception: rate limit exceeded"
        /\ UNCHANGED <<stock_info, income, cashflow>>
  /\ cache' = IF pc' = "raised" THEN CacheAfterRaise(cache, inp.ticker)
               ELSE cache
  /\ UNCHANGED <<inp, attempt, returned, result, response, dcf_state>>

\* Lines 204-266 and 111: the values are read off the statements and the
\* stock info and returned, and the cache keeps them. cashflow.loc fails on
\* None, and on a statement that lacks the row.
Process ==
  /\ pc = "process"
  /\ \/ /\ cashflow = None
        /\ pc' = "raised"
        /\ exc' = "AttributeError"
        /\ cache' = CacheAfterRaise(cache, inp.ticker)
        /\ UNCHANGED <<result, returned>>
     \/ /\ cashflow # None
        /\ cashflow[2] = "lacking"
        /\ pc' = "raised"
        /\ exc' = "KeyError"
        /\ cache' = CacheAfterRaise(cache, inp.ticker)
        /\ UNCHANGED <<result, returned>>
     \/ /\ cashflow # None
        /\ cashflow[2] = "full"
        /\ LET r == InfoResult(inp.ticker, stock_info)
           IN  /\ result' = r
               /\ cache' = CacheStore(cache, inp.ticker, r)
               /\ returned' = [returned EXCEPT ![inp.ticker] = r]
        /\ pc' = "returned"
        /\ exc' = exc
  /\ UNCHANGED <<inp, attempt, stock_info, income, cashflow, trace, response,
                 dcf_state>>

NextInfo ==
  \/ CacheHit
  \/ CacheMiss
  \/ PrimaryAttempt
  \/ Fallback
  \/ Process

SpecInfo == InitInfo /\ [][NextInfo]_vars

\* C18: once get_info(t) has returned a result, every later call get_info(t)
\* returns that same result and makes no fetch attempt, whatever other
\* tickers are looked up in between.
C18_Memoised ==
  [][\A t \in Tickers :
       returned[t] # None
       => /\ returned'[t] = returned[t]
          /\ (pc' # "idle" /\ inp'.ticker = t) => trace' = <<>>]_vars

\* A second call for a ticker has returned what the first returned, with no
\* fetch, while the cache holds the other ticker as well.
C18_Witness ==
  /\ pc = "returned"
  /\ trace = <<>>
  /\ result = returned[inp.ticker]
  /\ \A t \in Tickers : cache[t] # None

\* The fetches of the call in progress that went to source.
FetchesOf(source) == {i \in 1..Len(trace) : trace[i][1] = source}

\* C20: a get_info call that the cache does not answer makes at most 3
\* primary fetch attempts and at most 1 fallback fetch, whatever errors the
\* provider produces, and a primary attempt that delivers valid stock info
\* is the last fetch of the call.
C20_BoundedFetches ==
  /\ Cardinality(FetchesOf("primary")) <= 3
  /\ Cardinality(FetchesOf("fallback")) <= 1
  /\ \A i \in 1..Len(trace) : trace[i] = <<"primary", "ok">> => i = Len(trace)

\* Three primary attempts have failed and the fallback has been fetched.
C20_Witness ==
  /\ Cardinality(FetchesOf("primary")) = 3
  /\ Cardinality(FetchesOf("fallback")) = 1
  /\ pc \in {"process", "raised"}

\* A lowered error message holds one of the rate-limit markers.
HoldsRateLimit(error_str) ==
  "429" \in error_str \/ "too many requests" \in error_str

\* A lowered error message holds one of the not-found markers.
HoldsNotFound(error_str) ==
  "404" \in error_str \/ "not found" \in error_str

\* The i-th fetch of the call in progress was a primary attempt that failed.
FailedPrimary(i) == trace[i][1] = "primary" /\ Len(trace[i]) = 3

\* C21: the fallback fetch get_basic_stock_data is invoked only after three
\* failed primary attempts the third of which failed with a rate-limit
\* message: never after a rate-limit error on the first or second attempt,
\* and never after a not-found or other error.
C21_FallbackOnlyAfterThirdRateLimit ==
  /\ pc = "fallback" \/ FetchesOf("fallback") # {}
     => /\ Len(trace) >= 3
        /\ \A j \in 1..3 : FailedPrimary(j)
        /\ HoldsRateLimit(trace[3][3])
  /\ \A i \in FetchesOf("fallback") : i = 4

\* The fallback has been fetched after a first attempt that failed with an
\* error that is no rate limit and a third that was rate-limited.
C21_Witness ==
  /\ FetchesOf("fallback") = {4}
  /\ ~HoldsRateLimit(trace[1][3])
  /\ HoldsRateLimit(trace[3][3])

\* C22: a primary attempt that fails with a message holding "404" or
\* "not found" and no rate-limit marker is the last fetch of the call, and
\* get_info raises 'Ticker ... not found' on it, on the first attempt too.
C22_NotFoundRaisesAtOnce ==
  \A i \in 1..Len(trace) :
    (/\ FailedPrimary(i)
     /\ HoldsNotFound(trace[i][3])
     /\ ~HoldsRateLimit(trace[i][3]))
    => /\ i = Len(trace)
       /\ pc = "raised"
       /\ exc = "Exception: ticker not found"

\* The first attempt failed with a not-found message and get_info raised.
C22_Witness ==
  /\ pc = "raised"
  /\ Len(trace) = 1
  /\ FailedPrimary(1)
  /\ trace[1][3] = {"not found"}
  /\ exc = "Exception: ticker not found"

\* C23 (as claimed): when all three primary attempts were rate-limited and
\* the fallback fetch returned data, get_info ends by returning its
\* 7-element result, not by raising.
C23_FallbackDataReturned ==
  (/\ pc \in {"returned", "raised"}
   /\ Len(trace) = 4
   /\ \A j \in 1..3 : FailedPrimary(j) /\ HoldsRateLimit(trace[j][3])
   /\ trace[4] = <<"fallback", "data">>)
  => /\ pc = "returned"
     /\ Len(result) = 7

\* The retry loop was left with the data of the primary fetch bound.
PrimaryBound ==
  /\ stock_info # None /\ stock_info[1] = "info"
  /\ income # None /\ cashflow # None
  /\ trace[Len(trace)] = <<"primary", "ok">>

\* The retry loop was left with the data of the fallback fetch bound.
FallbackBound ==
  /\ stock_info # None /\ stock_info[1] = "basic"
  /\ income = None /\ cashflow = None
  /\ trace[Len(trace)] = <<"fallback", "data">>

\* The exceptions that lines 155, 158 and 161 raise out of the loop.
LoopExceptions ==
  {"Exception: rate limit exceeded", "Exception: ticker not found",
   "Exception: failed to fetch data"}

\* C25: a get_info call that the cache does not answer leaves its retry loop
\* after at most 3 passes with the primary data bound, or with the fallback
\* data bound, or by raising, and in one of these ways only; it never runs
\* out of passes with neither data bound nor an exception raised.
C25_LoopExits ==
  /\ Cardinality(FetchesOf("primary")) <= 3
  /\ pc = "attempt" => attempt \in 0..2 /\ Len(trace) = attempt
  /\ pc = "process" => /\ exc = None
                       /\ PrimaryBound \/ FallbackBound
                       /\ ~(PrimaryBound /\ FallbackBound)
  /\ (pc = "raised" /\ exc \in LoopExceptions)
     => ~PrimaryBound /\ ~FallbackBound

\* The loop was left on its third pass with the primary data bound.
C25_Witness ==
  /\ pc = "process"
  /\ Len(trace) = 3
  /\ PrimaryBound

\* C26: a get_info call that ends by raising stores nothing in the cache,
\* the cache changes for a ticker only when a call for it returns, and a
\* call for a ticker the cache does not hold starts the retry loop afresh
\* with its attempt counter at 0.
C26_FailuresNotMemoised ==
  [][/\ pc' = "raised" => cache' = cache /\ cache'[inp'.ticker] = None
     /\ \A t \in Tickers :
          /\ cache'[t] # cache[t] => pc' = "returned" /\ inp'.ticker = t
          /\ (Idle /\ cache[t] = None /\ inp'.ticker = t)
             => pc' = "attempt" /\ attempt' = 0 /\ trace' = <<>>]_vars

\* A call has raised while the cache holds the other ticker, and the cache
\* holds nothing for the ticker of the call.
C26_Witness ==
  /\ pc = "raised"
  /\ cache[inp.ticker] = None
  /\ \E t \in Tickers : cache[t] # None

(***************************************************************************)
(* get_company_info of src/api_server.py: the endpoint that answers a      *)
(* request with what get_info gives for the upper-cased ticker.            *)
(***************************************************************************)
\* Line 241.
Currency(t) == IF t = "INFY.NS" THEN "INR" ELSE "USD"

\* Lines 161-183: the answer when get_info raised; t is
\* request.ticker.upper().
BackendErrorRaised(t) ==
  <<"HTTPException", [status_code |-> 400]>>

BackendErrorResponse(t) ==
  <<"CompanyData",
    [ticker |-> t, name |-> <<t, " (Data Error)">>,
     lastYearlyRevenue |-> 0, totalSharesOut |-> 0,
     totalFloatPercent |-> None, totalShortPercent |-> None,
     averageVolume |-> None, marketCap |-> None,
     currentPrice |-> 0, currency |-> "USD",
     historicalData |->
       [revenueGrowth3Y |-> 0, revenueGrowth2Y |-> 0, revenueGrowth1Y |-> 0,
        dilution3Y |-> 0, dilution2Y |-> 0, dilution1Y |-> 0,
        fcfMargin3Y |-> 0, fcfMargin2Y |-> 0, fcfMargin1Y |-> 0]]>>

\* Lines 185-275: the answer built from the 7 values get_info returned; what
\* is parsed out of the table and of extra_info is some number.
CompanyDataOf(t, r) ==
  <<"CompanyData",
    [ticker |-> t, name |-> <<r[6]>>,
     lastYearlyRevenue |-> 1, totalSharesOut |-> 1,
     totalFloatPercent |-> <<1>>, totalShortPercent |-> None,
     averageVolume |-> <<1>>, marketCap |-> <<1>>,
     currentPrice |-> r[1], currency |-> Currency(t),
     historicalData |->
       [revenueGrowth3Y |-> 1, revenueGrowth2Y |-> 1, revenueGrowth1Y |-> 1,
        dilution3Y |-> 1, dilution2Y |-> 1, dilution1Y |-> 1,
        fcfMargin3Y |-> 1, fcfMargin2Y |-> 1, fcfMargin1Y |-> 1]]>>

\* Lines 158-183: the handler of an exception of the get_info call.
BackendFailed ==
  /\ pc = "raised"
  /\ response = None
  /\ response' = BackendErrorResponse(inp.ticker)
  /\ UNCHANGED <<pc, inp, result, exc, cache, attempt, stock_info, income,
                 cashflow, trace, returned, dcf_state>>

\* Lines 185-275: the values get_info returned are parsed into the answer.
BuildResponse ==
  /\ pc = "returned"
  /\ response = None
  /\ response' = CompanyDataOf(inp.ticker, result)
  /\ UNCHANGED <<pc, inp, result, exc, cache, attempt, stock_info, income,
                 cashflow, trace, returned, dcf_state>>

\* Lines 277-280: parsing the returned values or building the answer failed.
HttpError ==
  /\ pc = "returned"
  /\ response = None
  /\ response' = <<"HTTPException", [status_code |-> 400]>>
  /\ UNCHANGED <<pc, inp, result, exc, cache, attempt, stock_info, income,
                 cashflow, trace, returned, dcf_state>>

NextCompanyInfo ==
  \/ CacheHit
  \/ CacheMiss
  \/ PrimaryAttempt
  \/ Fallback
  \/ Process
  \/ BackendFailed
  \/ BuildResponse
  \/ HttpError

SpecCompanyInfo == InitInfo /\ [][NextCompanyInfo]_vars

\* C24: whenever the get_info call of get_company_info raised, the endpoint
\* answers with a CompanyData whose name is '<TICKER> (Data Error)', whose
\* currentPrice, revenue, shares and nine historical fields are 0 and whose
\* optional fields are null; it raises no HTTP error.
C24_BackendFailureAnswered ==
  (pc = "raised" /\ response # None)
  => /\ response[1] = "CompanyData"
     /\ LET d == response[2]
            h == d.historicalData
        IN  /\ d.ticker = inp.ticker
            /\ d.name = <<inp.ticker, " (Data Error)">>
            /\ d.currentPrice = 0
            /\ d.lastYearlyRevenue = 0 /\ d.totalSharesOut = 0
            /\ \A f \in DOMAIN h : h[f] = 0
            /\ Cardinality(DOMAIN h) = 9
            /\ d.totalFloatPercent = None /\ d.totalShortPercent = None
            /\ d.averageVolume = None /\ d.marketCap = None

\* The endpoint has answered a request whose get_info call raised
\* AttributeError after the fallback fetch gave data.
C24_Witness ==
  /\ pc = "raised"
  /\ response # None
  /\ exc = "AttributeError"

(***************************************************************************)
(* The depth of the reverse-solve recursion of dcf.                        *)
(***************************************************************************)
\* The call is in, or past, its reverse-solve section.
InSolveSection == pc \in {"solve_growth", "solve_discount", "solve_margin",
                          "return"}

\* C27: a dcf call with reverse_dcf_mode=True, as the objectives of the
\* reverse solves make it, returns the unrounded fair value that the
\* objectives use and never reaches the reverse-solve section, so it starts
\* no minimisation; a full call starts its minimisations in the order
\* growth, discount rate, FCF margin, never more than three, and has started
\* exactly three when it returns.
C27_RecursionDepthOne ==
  /\ inp.reverse_dcf_mode
     => /\ solved = <<>>
        /\ ~InSolveSection
        /\ pc = "done"
           => /\ result.fair_value = fair_value
              /\ result.fair_value =
                   dcf_reverse_mode(rev_growth_array, fcf_margins_array,
                                    inp.n_future_years, inp.latest_revenue,
                                    inp.wacc, inp.tgr, inp.total_shares)
  /\ ~inp.reverse_dcf_mode
     => /\ Len(solved) <= 3
        /\ pc = "solve_growth" => Len(solved) = 0
        /\ pc = "solve_discount"
           => /\ Len(solved) = 1
              /\ required_rev_growth = Round2(RMul(Z(100), solved[1]))
        /\ pc = "solve_margin"
           => /\ Len(solved) = 2
              /\ required_discount_rate = Round2(RMul(Z(100), solved[2]))
        /\ pc \in {"return", "done"}
           => /\ Len(solved) = 3
              /\ required_fcf_margin = Round2(RMul(Z(100), solved[3]))

\* A call in reverse mode has returned a fair value with more than 2
\* decimals, having started no minimisation.
C27_Witness ==
  /\ pc = "done"
  /\ inp.reverse_dcf_mode
  /\ solved = <<>>
  /\ IsFinite(result.fair_value)
  /\ ~IsRounded2(result.fair_value)

=============================================================================
